---- MODULE Spec2Model ----
(***************************************************************************)
(* Lifting diary: the workout data-access layer over the relational store. *)
(*                                                                         *)
(* The store holds four tables (exercises, workouts, workout_exercises,   *)
(* sets).  The data helpers resolve the caller from the session, scope    *)
(* every statement to the caller's rows and return rows or throw.         *)
(* Timestamps are counted in ticks; a calendar day holds DayTicks ticks.  *)
(***************************************************************************)
EXTENDS Integers, Sequences, FiniteSets, TLC

VARIABLES
    workouts,          \* rows of table workouts
    exercises,         \* rows of table exercises (the catalog)
    workoutExercises,  \* rows of table workout_exercises (the links)
    sets,              \* rows of table sets
    nextId,            \* per table, the next identifier defaultRandom() hands out
    writes,            \* the statements that have written to the store so far
    last               \* the call or calls in progress: caller, arguments, outcome

vars == <<workouts, exercises, workoutExercises, sets, nextId, writes, last>>

tables == <<workouts, exercises, workoutExercises, sets>>

----------------------------------------------------------------------------
(* Bounds of the model *)

MaxWorkouts == 2       \* workout rows ever inserted
MaxWrites == 3         \* writing statements ever executed on the store
DayTicks == 2          \* ticks in one calendar day

Days == {0, 1}
Times == {0, 1, 2, 3}              \* the timestamps of the inputs

Users == {"u1", "u2"}
NoUser == "no-session"             \* auth() resolves no userId
Callers == Users \cup {NoUser}

NullName == "<null>"               \* name IS NULL
NullTime == 0 - 1                  \* completed_at IS NULL
InvalidDate == 0 - 2               \* new Date(...) that is an Invalid Date

ExerciseNames == {"Squat", "Bench"}
Orders == {1, 2}
SetNumbers == {1, 2}
Weights == {135}
Reps == {5}

ErrNone == ""
ErrUnauthorized == "Unauthorized"
ErrNotFound == "Workout not found or unauthorized"
ErrValidation == "Validation failed"
ErrInvalidTime == "Invalid time value"

----------------------------------------------------------------------------
(* The store as a value, so that a query can be evaluated on any store *)

Store == [workouts |-> workouts, exercises |-> exercises,
          workoutExercises |-> workoutExercises, sets |-> sets]

(* date-fns startOfDay / endOfDay of a timestamp *)
startOfDay(t) == t - (t % DayTicks)

(* an end of day that is the first instant of the next day *)
endOfDay_NextMidnight(t) == startOfDay(t) + DayTicks

endOfDay(t) == startOfDay(t) + DayTicks - 1

(* every sequence that lists each element of S once *)
Perms(S) ==
    {f \in [1 .. Cardinality(S) -> S] :
        \A i, j \in 1 .. Cardinality(S) : i # j => f[i] # f[j]}

(* the row sequences an ORDER BY on a column may return: ties in any order *)
OrderBy(S, column) ==
    {f \in Perms(S) :
        \A i \in 1 .. (Cardinality(S) - 1) : f[i][column] <= f[i + 1][column]}

(* all sequences r over the domain of q with r[i] one of the values the
   function built maps q[i] to *)
SeqChoices(q, built) ==
    {r \in [DOMAIN q -> UNION {built[q[i]] : i \in DOMAIN q}] :
        \A i \in DOMAIN q : r[i] \in built[q[i]]}

RECURSIVE SumLen(_, _)
(* the number of exercise entries in the first n workouts of a listing *)
SumLen(r, n) == IF n = 0 THEN 0 ELSE Len(r[n].exercises) + SumLen(r, n - 1)

----------------------------------------------------------------------------
(* getUserWorkoutsByDate: the three queries and the assembly *)

(* the workouts query with lt in place of lte *)
WorkoutsQuery_ExclusiveEnd(db, userId, date) ==
    LET dayStart == startOfDay(date)
        dayEnd == endOfDay(date)
    IN  OrderBy({w \in db.workouts :
                    /\ w.userId = userId
                    /\ w.startedAt >= dayStart
                    /\ w.startedAt < dayEnd}, "startedAt")

(* the workouts query without eq(workouts.userId, session.userId) *)
WorkoutsQuery_NoUserFilter(db, userId, date) ==
    LET dayStart == startOfDay(date)
        dayEnd == endOfDay(date)
    IN  OrderBy({w \in db.workouts :
                    /\ w.startedAt >= dayStart
                    /\ w.startedAt <= dayEnd}, "startedAt")

(* select ... from workouts where userId = ? and startedAt between ? and ?
   order by startedAt *)
WorkoutsQuery(db, userId, date) ==
    LET dayStart == startOfDay(date)
        dayEnd == endOfDay(date)
    IN  OrderBy({w \in db.workouts :
                    /\ w.userId = userId
                    /\ w.startedAt >= dayStart
                    /\ w.startedAt <= dayEnd}, "startedAt")

(* the exercise query without orderBy: the rows in any order *)
ExerciseQuery_Unordered(db, workoutId) ==
    LET joined == {p \in db.workoutExercises \X db.exercises :
                      /\ p[1].exerciseId = p[2].id
                      /\ p[1].workoutId = workoutId}
    IN  Perms({[workoutExerciseId |-> p[1].id, exerciseId |-> p[2].id,
                exerciseName |-> p[2].name, order |-> p[1].order] :
                   p \in joined})

(* select ... from workout_exercises inner join exercises
   where workoutId = ? order by order *)
ExerciseQuery(db, workoutId) ==
    LET joined == {p \in db.workoutExercises \X db.exercises :
                      /\ p[1].exerciseId = p[2].id
                      /\ p[1].workoutId = workoutId}
    IN  OrderBy({[workoutExerciseId |-> p[1].id, exerciseId |-> p[2].id,
                  exerciseName |-> p[2].name, order |-> p[1].order] :
                     p \in joined}, "order")

(* the sets query without its where clause *)
SetsQuery_AllSets(db, workoutExerciseId) ==
    OrderBy({[id |-> s.id, setNumber |-> s.setNumber,
                  weight |-> s.weight, reps |-> s.reps] : s \in db.sets},
            "setNumber")

(* select id, setNumber, weight, reps from sets
   where workoutExerciseId = ? order by setNumber *)
SetsQuery(db, workoutExerciseId) ==
    OrderBy({[id |-> s.id, setNumber |-> s.setNumber,
                  weight |-> s.weight, reps |-> s.reps] :
                     s \in {x \in db.sets :
                               x.workoutExerciseId = workoutExerciseId}},
            "setNumber")

(* the entry built for one joined row: its sets in query order *)
ExerciseWithSets(db, exercise) ==
    {[id |-> exercise.exerciseId, name |-> exercise.exerciseName,
      order |-> exercise.order, sets |-> exerciseSets] :
         exerciseSets \in SetsQuery(db, exercise.workoutExerciseId)}

(* { ...workout, exercises: exercisesWithSets } *)
WorkoutWithDetails(db, workout) ==
    LET entry(q) == [x \in {q[i] : i \in DOMAIN q} |->
                        ExerciseWithSets(db, x)]
    IN  {[id |-> workout.id, name |-> workout.name,
          startedAt |-> workout.startedAt, completedAt |-> workout.completedAt,
          userId |-> workout.userId, exercises |-> exercisesWithSets] :
            exercisesWithSets \in
                UNION {SeqChoices(q, entry(q)) :
                          q \in ExerciseQuery(db, workout.id)}}

(* every value the listing may return for an authenticated caller *)
ListResults(db, userId, date) ==
    LET details(q) == [w \in {q[i] : i \in DOMAIN q} |->
                          WorkoutWithDetails(db, w)]
    IN  UNION {SeqChoices(q, details(q)) :
                  q \in WorkoutsQuery(db, userId, date)}

(* the listing with the session check after the workouts query *)
getUserWorkoutsByDate_LateAuth(db, caller, date) ==
    IF caller = NoUser
    THEN {[error |-> ErrUnauthorized, result |-> <<>>, dbCalls |-> 1]}
    ELSE {[error |-> ErrNone, result |-> r,
           dbCalls |-> 1 + Len(r) + SumLen(r, Len(r))] :
             r \in ListResults(db, caller, date)}

(* the outcomes of getUserWorkoutsByDate(date) for a caller: the session
   check comes first, then the queries *)
getUserWorkoutsByDate(db, caller, date) ==
    IF caller = NoUser
    THEN {[error |-> ErrUnauthorized, result |-> <<>>, dbCalls |-> 0]}
    ELSE {[error |-> ErrNone, result |-> r,
           dbCalls |-> 1 + Len(r) + SumLen(r, Len(r))] :
             r \in ListResults(db, caller, date)}

----------------------------------------------------------------------------
(* The store's statements, as the schema constrains them *)

(* delete of workout_exercises rows without onDelete cascade on
   workout_exercise_id *)
DeleteLinks_KeepSets(db, L) == [db EXCEPT !.workoutExercises = @ \ L]

(* delete of workout_exercises rows L: their sets go with them *)
DeleteLinks(db, L) ==
    LET ids == {l.id : l \in L}
    IN  [db EXCEPT !.workoutExercises = @ \ L,
                   !.sets = {s \in @ : s.workoutExerciseId \notin ids}]

(* delete of workouts rows without onDelete cascade on workout_id *)
DeleteWorkouts_NoCascade(db, W) == [db EXCEPT !.workouts = @ \ W]

(* delete of workouts rows W: their links go with them (onDelete cascade) *)
DeleteWorkouts(db, W) ==
    LET ids == {w.id : w \in W}
        after == [db EXCEPT !.workouts = @ \ W]
    IN  DeleteLinks(after, {l \in db.workoutExercises : l.workoutId \in ids})

(* delete of exercises rows E: the links to them go with them *)
(* the delete without the cascade of workout_exercises.exercise_id *)
DeleteExercises_NoCascade(db, E) == [db EXCEPT !.exercises = @ \ E]

DeleteExercises(db, E) ==
    LET ids == {e.id : e \in E}
        after == [db EXCEPT !.exercises = @ \ E]
    IN  DeleteLinks(after, {l \in db.workoutExercises : l.exerciseId \in ids})

----------------------------------------------------------------------------
(* The data helpers of data/workouts.ts that mutate or read one workout.
   Each yields [error, value, db, dbCalls]: value is the set of rows the
   helper returns (empty for null), db the store after the call. *)

Outcome(error, value, db, dbCalls) ==
    [error |-> error, value |-> value, db |-> db, dbCalls |-> dbCalls]

getWorkoutById(db, caller, workoutId) ==
    IF caller = NoUser
    THEN Outcome(ErrUnauthorized, {}, db, 0)
    ELSE LET result == {w \in db.workouts :
                           w.id = workoutId /\ w.userId = caller}
         IN  Outcome(ErrNone, result, db, 1)

(* the row with userId spread from data when data carries one *)
NewWorkoutRow_TrustsData(caller, data, id) ==
    [id |-> id, userId |-> IF data.userId = NoUser THEN caller ELSE data.userId,
     name |-> data.name,
     startedAt |-> data.startedAt, completedAt |-> NullTime]

(* the row with completedAt filled in at creation *)
NewWorkoutRow_Completed(caller, data, id) ==
    [id |-> id, userId |-> caller, name |-> data.name,
     startedAt |-> data.startedAt, completedAt |-> data.startedAt]

(* the row inserted for data by the caller: userId is forced after the
   spread of data, completedAt is left to its default *)
NewWorkoutRow(caller, data, id) ==
    [id |-> id, userId |-> caller, name |-> data.name,
     startedAt |-> data.startedAt, completedAt |-> NullTime]

(* createWorkout replacing the caller's rows by the new one *)
createWorkout_Replace(db, caller, data, id) ==
    IF caller = NoUser
    THEN Outcome(ErrUnauthorized, {}, db, 0)
    ELSE IF data.startedAt = InvalidDate
    THEN Outcome(ErrInvalidTime, {}, db, 0)
    ELSE LET row == NewWorkoutRow(caller, data, id)
         IN  Outcome(ErrNone, {row},
                     [db EXCEPT !.workouts =
                         {w \in @ : w.userId # caller} \cup {row}], 1)

createWorkout(db, caller, data, id) ==
    IF caller = NoUser
    THEN Outcome(ErrUnauthorized, {}, db, 0)
    ELSE IF data.startedAt = InvalidDate
    THEN Outcome(ErrInvalidTime, {}, db, 0)
    ELSE LET row == NewWorkoutRow(caller, data, id)
         IN  Outcome(ErrNone, {row},
                     [db EXCEPT !.workouts = @ \cup {row}], 1)

KeepName == "<absent>"             \* the field is not in the partial data
KeepTime == 0 - 3

(* .set(data) on one row *)
SetFields(w, data) ==
    [w EXCEPT
        !.name = IF data.name = KeepName THEN @ ELSE data.name,
        !.startedAt = IF data.startedAt = KeepTime THEN @ ELSE data.startedAt,
        !.completedAt = IF data.completedAt = KeepTime THEN @
                        ELSE data.completedAt]

(* updateWorkout telling a workout of another owner from a missing one *)
updateWorkout_Forbidden(db, caller, workoutId, data) ==
    IF caller = NoUser
    THEN Outcome(ErrUnauthorized, {}, db, 0)
    ELSE LET matched == {w \in db.workouts :
                            w.id = workoutId /\ w.userId = caller}
             result == {SetFields(w, data) : w \in matched}
         IN  IF \E w \in db.workouts : w.id = workoutId /\ w.userId # caller
             THEN Outcome("Forbidden", {}, db, 1)
             ELSE IF result = {}
             THEN Outcome(ErrNotFound, {}, db, 1)
             ELSE Outcome(ErrNone, result,
                          [db EXCEPT !.workouts = (@ \ matched) \cup result], 1)

(* updateWorkout without eq(workouts.id, workoutId) *)
updateWorkout_NoIdFilter(db, caller, workoutId, data) ==
    IF caller = NoUser
    THEN Outcome(ErrUnauthorized, {}, db, 0)
    ELSE LET matched == {w \in db.workouts : w.userId = caller}
             result == {SetFields(w, data) : w \in matched}
         IN  IF result = {}
             THEN Outcome(ErrNotFound, {}, db, 1)
             ELSE Outcome(ErrNone, result,
                          [db EXCEPT !.workouts = (@ \ matched) \cup result], 1)

(* an update that inserts the row when it matches none *)
updateWorkout_Upsert(db, caller, workoutId, data) ==
    IF caller = NoUser
    THEN Outcome(ErrUnauthorized, {}, db, 0)
    ELSE LET matched == {w \in db.workouts :
                            w.id = workoutId /\ w.userId = caller}
             blank == [id |-> workoutId, userId |-> caller,
                       name |-> NullName, startedAt |-> 0,
                       completedAt |-> NullTime]
             result == IF matched = {} THEN {SetFields(blank, data)}
                       ELSE {SetFields(w, data) : w \in matched}
         IN  Outcome(ErrNone, result,
                     [db EXCEPT !.workouts = (@ \ matched) \cup result], 1)

updateWorkout(db, caller, workoutId, data) ==
    IF caller = NoUser
    THEN Outcome(ErrUnauthorized, {}, db, 0)
    ELSE LET matched == {w \in db.workouts :
                            w.id = workoutId /\ w.userId = caller}
             result == {SetFields(w, data) : w \in matched}
         IN  IF result = {}
             THEN Outcome(ErrNotFound, {}, db, 1)
             ELSE Outcome(ErrNone, result,
                          [db EXCEPT !.workouts = (@ \ matched) \cup result], 1)

(* deleteWorkout without eq(workouts.userId, session.user.id) *)
deleteWorkout_NoUserFilter(db, caller, workoutId) ==
    IF caller = NoUser
    THEN Outcome(ErrUnauthorized, {}, db, 0)
    ELSE LET result == {w \in db.workouts : w.id = workoutId}
         IN  IF result = {}
             THEN Outcome(ErrNotFound, {}, db, 1)
             ELSE Outcome(ErrNone, result, DeleteWorkouts(db, result), 1)

deleteWorkout(db, caller, workoutId) ==
    IF caller = NoUser
    THEN Outcome(ErrUnauthorized, {}, db, 0)
    ELSE LET result == {w \in db.workouts :
                           w.id = workoutId /\ w.userId = caller}
         IN  IF result = {}
             THEN Outcome(ErrNotFound, {}, db, 1)
             ELSE Outcome(ErrNone, result, DeleteWorkouts(db, result), 1)

----------------------------------------------------------------------------
(* createWorkoutAction: validate, convert, call the helper, revalidate *)

NameMax == 100

(* the name schema without .max(100) *)
NameValid_NoMax(name) == name = NullName \/ Len(name) >= 1

(* z.string().min(1).max(100).nullable() *)
NameValid(name) == name = NullName \/ (Len(name) >= 1 /\ Len(name) <= NameMax)

(* the datetime string of the payload: match tells whether it has the form
   YYYY-MM-DDTHH:MM, day and tick are the date and the time of day it
   writes; a tick of DayTicks writes a time of day that does not exist *)
StartedAtValid(str) == str.match

(* new Date(validated.startedAt) *)
ParseDate(str) ==
    IF str.tick < DayTicks THEN str.day * DayTicks + str.tick ELSE InvalidDate

(* the paths of the issues CreateWorkoutSchema.parse reports *)
Issues(data) ==
    {path \in {"name", "startedAt"} :
        \/ path = "name" /\ ~NameValid(data.name)
        \/ path = "startedAt" /\ ~StartedAtValid(data.startedAt)}

(* [success, error, issues, value, db, dbCalls, calls, revalidated]: calls
   counts the calls of createWorkout, revalidated tells whether
   revalidatePath ran *)
createWorkoutAction(db, caller, data, id) ==
    IF Issues(data) # {}
    THEN [success |-> FALSE, error |-> ErrValidation, issues |-> Issues(data),
          value |-> {}, db |-> db, dbCalls |-> 0, calls |-> 0,
          revalidated |-> FALSE]
    ELSE LET workoutData == [name |-> data.name,
                             startedAt |-> ParseDate(data.startedAt),
                             userId |-> NoUser]
             workout == createWorkout(db, caller, workoutData, id)
         IN  IF workout.error # ErrNone
             THEN [success |-> FALSE, error |-> workout.error, issues |-> {},
                   value |-> {}, db |-> workout.db,
                   dbCalls |-> workout.dbCalls,
                   calls |-> 1, revalidated |-> FALSE]
             ELSE [success |-> TRUE, error |-> ErrNone, issues |-> {},
                   value |-> workout.value, db |-> workout.db,
                   dbCalls |-> workout.dbCalls,
                   calls |-> 1, revalidated |-> TRUE]

(* the page without the notFound() branch *)
EditWorkoutPage_NoCheck(db, caller, workoutId) ==
    LET workout == getWorkoutById(db, caller, workoutId)
    IN  IF workout.error # ErrNone THEN "error" ELSE "edit-form"

(* EditWorkoutPage: what the page renders for workoutId *)
EditWorkoutPage(db, caller, workoutId) ==
    LET workout == getWorkoutById(db, caller, workoutId)
    IN  IF workout.error # ErrNone THEN "error"
        ELSE IF workout.value = {} THEN "not-found"
        ELSE "edit-form"

----------------------------------------------------------------------------
(* Inputs *)

WorkoutIds == 1 .. (MaxWorkouts + 1)     \* the last one is never handed out

LongName ==
    "aaaaaaaaaaaaaaaaaaaaaaaaaaaaaaaaaaaaaaaaaaaaaaaaaaaaaaaaaaaaaaaaaaaaaaaaaaaaaaaaaaaaaaaaaaaaaaaaaaaaa"

(* the datetime strings a client may send: two that fail (not of the form
   YYYY-MM-DDTHH:MM; of that form with a time of day that does not exist)
   and one per tick *)
StartedAtInputs ==
    {[match |-> FALSE, day |-> 0, tick |-> 0],
     [match |-> TRUE, day |-> 0, tick |-> DayTicks]} \cup
    {str \in [match : {TRUE}, day : Days, tick : 0 .. (DayTicks - 1)] :
        str.day * DayTicks + str.tick \in Times}

(* the dates the dashboard is asked for: the last tick of the first day and
   the first tick of the second *)
ListDates == {DayTicks - 1, DayTicks}

(* the payload of createWorkoutAction; userId is an owner field a client
   may add to it (NoUser: the field is absent) *)
CreatePayloads ==
    [name : {"Leg Day"}, startedAt : StartedAtInputs, userId : {NoUser}] \cup
    [name : {NullName, "", LongName},
     startedAt : {[match |-> TRUE, day |-> 0, tick |-> 0]},
     userId : {NoUser}] \cup
    [name : {"Leg Day"},
     startedAt : {[match |-> TRUE, day |-> 0, tick |-> 0]},
     userId : Users]

(* the data a request handler may hand to createWorkout *)
CreateData ==
    [name : {"Leg Day"}, startedAt : {0, InvalidDate}, userId : {NoUser, "u1"}]

(* partial data of updateWorkout: one field, or name and start time as the
   edit form sends them *)
UpdateData ==
    {[name |-> NullName, startedAt |-> KeepTime, completedAt |-> KeepTime],
     [name |-> KeepName, startedAt |-> 2, completedAt |-> KeepTime],
     [name |-> KeepName, startedAt |-> KeepTime, completedAt |-> 3],
     [name |-> "Leg Day", startedAt |-> 1, completedAt |-> KeepTime]}

----------------------------------------------------------------------------
(* The state machine.  A call is served in one step and its outcome stays
   in last until the caller has taken it (Return). *)

NoCall ==
    [op |-> "none", caller |-> NoUser, id |-> 0, date |-> 0, data |-> {},
     error |-> ErrNone, value |-> {}, result |-> <<>>, dbCalls |-> 0,
     calls |-> 0, revalidated |-> FALSE, page |-> "", success |-> FALSE,
     issues |-> {}]

(* the master list of exercises the store is set up with *)
Catalog == {[id |-> 1, name |-> "Squat"]}

(* a diary in use: one workout of u1 with one exercise logged in it, as
   createWorkoutAction and an insert into workout_exercises leave it *)
Diary ==
    [workouts |-> {[id |-> 1, userId |-> "u1", name |-> "Leg Day",
                    startedAt |-> 0, completedAt |-> NullTime]},
     exercises |-> Catalog,
     workoutExercises |-> {[id |-> 1, workoutId |-> 1, exerciseId |-> 1,
                            order |-> 1]},
     sets |-> {}]

Empty ==
    [workouts |-> {}, exercises |-> Catalog, workoutExercises |-> {},
     sets |-> {}]

(* the store starts empty or as a diary in use *)
Init ==
    /\ \E db \in {Empty, Diary} :
          /\ workouts = db.workouts
          /\ exercises = db.exercises
          /\ workoutExercises = db.workoutExercises
          /\ sets = db.sets
          /\ nextId = [workouts |-> Cardinality(db.workouts) + 1,
                       exercises |-> Cardinality(db.exercises) + 1,
                       workoutExercises |->
                           Cardinality(db.workoutExercises) + 1,
                       sets |-> Cardinality(db.sets) + 1]
    /\ writes = 0
    /\ last = NoCall

SetStore(db) ==
    /\ workouts' = db.workouts
    /\ exercises' = db.exercises
    /\ workoutExercises' = db.workoutExercises
    /\ sets' = db.sets

(* the store may take one more writing statement *)
CanWrite == writes < MaxWrites

(* the call wrote to the store iff it left another store *)
Wrote(db) == IF db = Store THEN writes ELSE writes + 1

(* a client submits the new-workout payload *)
CreateWorkoutAction(caller, data) ==
    /\ last = NoCall /\ CanWrite
    /\ nextId.workouts <= MaxWorkouts
    /\ LET out == createWorkoutAction(Store, caller, data, nextId.workouts)
       IN  /\ SetStore(out.db)
           /\ nextId' = IF out.success
                        THEN [nextId EXCEPT !.workouts = @ + 1] ELSE nextId
           /\ writes' = Wrote(out.db)
           /\ last' = [NoCall EXCEPT !.op = "createAction", !.caller = caller,
                          !.data = {data}, !.error = out.error,
                          !.value = out.value, !.dbCalls = out.dbCalls,
                          !.calls = out.calls,
                          !.revalidated = out.revalidated,
                          !.success = out.success, !.issues = out.issues]

(* a request handler calls createWorkout *)
CreateWorkout(caller, data) ==
    /\ last = NoCall /\ CanWrite
    /\ nextId.workouts <= MaxWorkouts
    /\ LET out == createWorkout(Store, caller, data, nextId.workouts)
       IN  /\ SetStore(out.db)
           /\ nextId' = IF out.error = ErrNone
                        THEN [nextId EXCEPT !.workouts = @ + 1] ELSE nextId
           /\ writes' = Wrote(out.db)
           /\ last' = [NoCall EXCEPT !.op = "create", !.caller = caller,
                          !.data = {data}, !.error = out.error,
                          !.value = out.value, !.dbCalls = out.dbCalls]

(* a listing that deletes the workouts it has listed *)
GetUserWorkoutsByDate_Purging(caller, date) ==
    /\ last = NoCall
    /\ \E out \in getUserWorkoutsByDate(Store, caller, date) :
          /\ last' = [NoCall EXCEPT !.op = "list", !.caller = caller,
                         !.date = date, !.error = out.error,
                         !.result = out.result, !.dbCalls = out.dbCalls]
          /\ SetStore(DeleteWorkouts(Store,
                 {w \in workouts :
                     \E i \in DOMAIN out.result : out.result[i].id = w.id}))
    /\ UNCHANGED <<nextId, writes>>

(* the dashboard page lists the workouts of a date *)
GetUserWorkoutsByDate(caller, date) ==
    /\ last = NoCall
    /\ \E out \in getUserWorkoutsByDate(Store, caller, date) :
          last' = [NoCall EXCEPT !.op = "list", !.caller = caller,
                      !.date = date, !.error = out.error,
                      !.result = out.result, !.dbCalls = out.dbCalls]
    /\ UNCHANGED <<tables, nextId, writes>>

(* the edit page is requested for a workout id *)
RenderEditWorkoutPage(caller, workoutId) ==
    /\ last = NoCall
    /\ LET out == getWorkoutById(Store, caller, workoutId)
       IN  last' = [NoCall EXCEPT !.op = "getById", !.caller = caller,
                       !.id = workoutId, !.error = out.error,
                       !.value = out.value, !.dbCalls = out.dbCalls,
                       !.page = EditWorkoutPage(Store, caller, workoutId)]
    /\ UNCHANGED <<tables, nextId, writes>>

UpdateWorkout(caller, workoutId, data) ==
    /\ last = NoCall /\ CanWrite
    /\ LET out == updateWorkout(Store, caller, workoutId, data)
       IN  /\ SetStore(out.db)
           /\ writes' = IF out.error = ErrNone THEN writes + 1 ELSE writes
           /\ last' = [NoCall EXCEPT !.op = "update", !.caller = caller,
                          !.id = workoutId, !.data = {data},
                          !.error = out.error, !.value = out.value,
                          !.dbCalls = out.dbCalls]
    /\ UNCHANGED nextId

DeleteWorkout(caller, workoutId) ==
    /\ last = NoCall /\ CanWrite
    /\ LET out == deleteWorkout(Store, caller, workoutId)
       IN  /\ SetStore(out.db)
           /\ writes' = IF out.error = ErrNone THEN writes + 1 ELSE writes
           /\ last' = [NoCall EXCEPT !.op = "delete", !.caller = caller,
                          !.id = workoutId, !.error = out.error,
                          !.value = out.value, !.dbCalls = out.dbCalls]
    /\ UNCHANGED nextId

(* the caller takes the outcome *)
Return ==
    /\ last # NoCall
    /\ last' = NoCall
    /\ UNCHANGED <<tables, nextId, writes>>

(* Rows of the other three tables are written by statements on the store;
   the schema decides which of them succeed. *)

InsertExercise(name) ==
    /\ last = NoCall /\ CanWrite
    /\ \A e \in exercises : e.name # name            \* unique(name)
    /\ exercises' = exercises \cup {[id |-> nextId.exercises, name |-> name]}
    /\ nextId' = [nextId EXCEPT !.exercises = @ + 1]
    /\ writes' = writes + 1
    /\ UNCHANGED <<workouts, workoutExercises, sets, last>>

DeleteExercise(e) ==
    /\ last = NoCall /\ CanWrite
    /\ e \in exercises
    /\ SetStore(DeleteExercises(Store, {e}))
    /\ writes' = writes + 1
    /\ UNCHANGED <<nextId, last>>

InsertWorkoutExercise(w, e, order) ==
    /\ last = NoCall /\ CanWrite
    /\ w \in workouts /\ e \in exercises             \* the foreign keys
    /\ workoutExercises' = workoutExercises \cup
          {[id |-> nextId.workoutExercises, workoutId |-> w.id,
            exerciseId |-> e.id, order |-> order]}
    /\ nextId' = [nextId EXCEPT !.workoutExercises = @ + 1]
    /\ writes' = writes + 1
    /\ UNCHANGED <<workouts, exercises, sets, last>>

InsertSet(l, setNumber, weight, reps) ==
    /\ last = NoCall /\ CanWrite
    /\ l \in workoutExercises                        \* the foreign key
    /\ sets' = sets \cup
          {[id |-> nextId.sets, workoutExerciseId |-> l.id,
            setNumber |-> setNumber, weight |-> weight, reps |-> reps]}
    /\ nextId' = [nextId EXCEPT !.sets = @ + 1]
    /\ writes' = writes + 1
    /\ UNCHANGED <<workouts, exercises, workoutExercises, last>>

Next ==
    \/ \E caller \in Callers, data \in CreatePayloads :
          CreateWorkoutAction(caller, data)
    \/ \E caller \in Callers, data \in CreateData :
          CreateWorkout(caller, data)
    \/ \E caller \in Callers, date \in ListDates :
          GetUserWorkoutsByDate(caller, date)
    \/ \E caller \in Callers, workoutId \in WorkoutIds :
          RenderEditWorkoutPage(caller, workoutId)
    \/ \E caller \in Callers, workoutId \in WorkoutIds, data \in UpdateData :
          UpdateWorkout(caller, workoutId, data)
    \/ \E caller \in Callers, workoutId \in WorkoutIds :
          DeleteWorkout(caller, workoutId)
    \/ Return
    \/ \E name \in ExerciseNames : InsertExercise(name)
    \/ \E e \in exercises : DeleteExercise(e)
    \/ \E w \in workouts, e \in exercises, order \in Orders :
          InsertWorkoutExercise(w, e, order)
    \/ \E l \in workoutExercises, setNumber \in SetNumbers,
          weight \in Weights, reps \in Reps :
          InsertSet(l, setNumber, weight, reps)

Spec == Init /\ [][Next]_vars

(* The catalog under maintenance: the store starts with an exercise that
   workouts of two users have logged, and the statements on the catalog
   and a second exercise logged in a workout run between listings. *)
Shared ==
    [workouts |-> {[id |-> 1, userId |-> "u1", name |-> "Leg Day",
                    startedAt |-> 0, completedAt |-> NullTime],
                   [id |-> 2, userId |-> "u2", name |-> NullName,
                    startedAt |-> 0, completedAt |-> NullTime]},
     exercises |-> Catalog,
     workoutExercises |-> {[id |-> 1, workoutId |-> 1, exerciseId |-> 1,
                            order |-> 1],
                           [id |-> 2, workoutId |-> 2, exerciseId |-> 1,
                            order |-> 1]},
     sets |-> {[id |-> 1, workoutExerciseId |-> 1, setNumber |-> 1,
                weight |-> 135, reps |-> 5],
               [id |-> 2, workoutExerciseId |-> 2, setNumber |-> 1,
                weight |-> 135, reps |-> 5]}]

CatalogInit ==
    /\ workouts = Shared.workouts
    /\ exercises = Shared.exercises
    /\ workoutExercises = Shared.workoutExercises
    /\ sets = Shared.sets
    /\ nextId = [workouts |-> Cardinality(Shared.workouts) + 1,
                 exercises |-> Cardinality(Shared.exercises) + 1,
                 workoutExercises |->
                     Cardinality(Shared.workoutExercises) + 1,
                 sets |-> Cardinality(Shared.sets) + 1]
    /\ writes = 0
    /\ last = NoCall

CatalogNext ==
    \/ \E caller \in Callers, date \in ListDates :
          GetUserWorkoutsByDate(caller, date)
    \/ Return
    \/ \E name \in ExerciseNames : InsertExercise(name)
    \/ \E e \in exercises : DeleteExercise(e)
    \/ \E w \in workouts, e \in exercises :
          InsertWorkoutExercise(w, e, 2)

CatalogSpec == CatalogInit /\ [][CatalogNext]_vars

----------------------------------------------------------------------------
(* The listing, query by query.  getUserWorkoutsByDate awaits the workouts
   query, then issues one exercise query per workout (Promise.all) and, as
   each of them answers, one sets query per exercise (Promise.all); no
   transaction spans them.  The store serves each query in one step, and
   other requests write between the queries.  Here last holds the listing in
   progress: the answers so far and, for the properties, the stores that
   have existed since the call began (seen). *)

Idle ==
    [op |-> "idle", pc |-> "idle", caller |-> NoUser, date |-> 0,
     error |-> ErrNone, userWorkouts |-> <<>>, exerciseData |-> <<>>,
     exerciseSets |-> <<>>, result |-> <<>>, seen |-> {},
     completion |-> <<>>]

(* a day with two workouts of u1, two exercises logged in each and a set
   in one of them *)
Busy ==
    [workouts |-> {[id |-> 1, userId |-> "u1", name |-> "Leg Day",
                    startedAt |-> 0, completedAt |-> NullTime],
                   [id |-> 2, userId |-> "u1", name |-> NullName,
                    startedAt |-> 1, completedAt |-> NullTime]},
     exercises |-> Catalog,
     workoutExercises |-> {[id |-> 1, workoutId |-> 1, exerciseId |-> 1,
                            order |-> 1],
                           [id |-> 2, workoutId |-> 1, exerciseId |-> 1,
                            order |-> 2],
                           [id |-> 3, workoutId |-> 2, exerciseId |-> 1,
                            order |-> 1],
                           [id |-> 4, workoutId |-> 2, exerciseId |-> 1,
                            order |-> 2]},
     sets |-> {[id |-> 1, workoutExerciseId |-> 2, setNumber |-> 1,
                weight |-> 135, reps |-> 5]}]

ListingInit ==
    /\ \E db \in {Empty, Diary} :
          /\ workouts = db.workouts
          /\ exercises = db.exercises
          /\ workoutExercises = db.workoutExercises
          /\ sets = db.sets
          /\ nextId = [workouts |-> Cardinality(db.workouts) + 1,
                       exercises |-> Cardinality(db.exercises) + 1,
                       workoutExercises |->
                           Cardinality(db.workoutExercises) + 1,
                       sets |-> Cardinality(db.sets) + 1]
    /\ writes = 0
    /\ last = Idle

(* the call begins: auth(), then startOfDay and endOfDay *)
BeginListing(caller, date) ==
    /\ last.pc = "idle"
    /\ last' = IF caller = NoUser
               THEN [Idle EXCEPT !.op = "list", !.pc = "done",
                        !.caller = caller, !.date = date,
                        !.error = ErrUnauthorized]
               ELSE [Idle EXCEPT !.op = "list", !.pc = "workouts",
                        !.caller = caller, !.date = date, !.seen = {Store}]
    /\ UNCHANGED <<tables, nextId, writes>>

(* await db.select(...).from(workouts)... *)
QueryWorkouts ==
    /\ last.pc = "workouts"
    /\ \E q \in WorkoutsQuery(Store, last.caller, last.date) :
          last' = [last EXCEPT !.pc = "details", !.userWorkouts = q]
    /\ UNCHANGED <<tables, nextId, writes>>

(* the exercise query of the i-th workout is served *)
QueryExercises(i) ==
    /\ last.pc = "details"
    /\ i \in DOMAIN last.userWorkouts /\ i \notin DOMAIN last.exerciseData
    /\ \E q \in ExerciseQuery(Store, last.userWorkouts[i].id) :
          last' = [last EXCEPT
                      !.exerciseData = (i :> q) @@ @,
                      !.completion = Append(@, [workout |-> i,
                                                exercise |-> 0])]
    /\ UNCHANGED <<tables, nextId, writes>>

(* the sets query of the j-th exercise of the i-th workout is served *)
QuerySets(i, j) ==
    /\ last.pc = "details"
    /\ i \in DOMAIN last.exerciseData
    /\ j \in DOMAIN last.exerciseData[i]
    /\ <<i, j>> \notin DOMAIN last.exerciseSets
    /\ \E q \in SetsQuery(Store, last.exerciseData[i][j].workoutExerciseId) :
          last' = [last EXCEPT
                      !.exerciseSets = (<<i, j>> :> q) @@ @,
                      !.completion = Append(@, [workout |-> i,
                                                exercise |-> j])]
    /\ UNCHANGED <<tables, nextId, writes>>

(* when the promise mapped from the i-th workout settled: the place in
   completion of the last query issued for that workout *)
WorkoutSettledAt(completion, i) ==
    CHOOSE p \in DOMAIN completion :
        /\ completion[p].workout = i
        /\ \A q \in DOMAIN completion :
              completion[q].workout = i => q <= p

(* when the promise mapped from the j-th exercise of the i-th workout
   settled *)
ExerciseSettledAt(completion, i, j) ==
    CHOOSE p \in DOMAIN completion :
        completion[p] = [workout |-> i, exercise |-> j]

(* an all() that yields the values in the order the promises settled:
   the k-th value is that of the input settled k-th *)
PromiseAll_AsSettled(n, settledAt) ==
    CHOOSE s \in Perms(1 .. n) :
        \A a, b \in 1 .. n : a < b => settledAt[s[a]] < settledAt[s[b]]

(* Promise.all of n promises: the k-th value is that of the k-th input,
   whenever the promises settled *)
PromiseAll(n, settledAt) == [k \in 1 .. n |-> k]

(* every query has answered: both Promise.all resolve *)
Assemble ==
    /\ last.pc = "details"
    /\ \A i \in DOMAIN last.userWorkouts :
          /\ i \in DOMAIN last.exerciseData
          /\ \A j \in DOMAIN last.exerciseData[i] :
                <<i, j>> \in DOMAIN last.exerciseSets
    /\ LET n == Len(last.userWorkouts)
           outer == PromiseAll(n,
                        [i \in 1 .. n |->
                            WorkoutSettledAt(last.completion, i)])
       IN  last' = [last EXCEPT
              !.pc = "done",
              !.result =
                  [k \in 1 .. n |->
                      LET i == outer[k]
                          workout == last.userWorkouts[i]
                          m == Len(last.exerciseData[i])
                          inner == PromiseAll(m,
                                       [j \in 1 .. m |->
                                           ExerciseSettledAt(
                                               last.completion, i, j)])
                      IN  [id |-> workout.id, name |-> workout.name,
                           startedAt |-> workout.startedAt,
                           completedAt |-> workout.completedAt,
                           userId |-> workout.userId,
                           exercises |->
                               [c \in 1 .. m |->
                                   LET j == inner[c]
                                       exercise == last.exerciseData[i][j]
                                   IN  [id |-> exercise.exerciseId,
                                        name |-> exercise.exerciseName,
                                        order |-> exercise.order,
                                        sets |->
                                            last.exerciseSets[<<i, j>>]]]]]]
    /\ UNCHANGED <<tables, nextId, writes>>

(* the caller takes the listing or the error *)
ListingReturn ==
    /\ last.pc = "done"
    /\ last' = Idle
    /\ UNCHANGED <<tables, nextId, writes>>

(* a write of another request: the store it leaves has existed during the
   listing in progress *)
Seen(db) ==
    [last EXCEPT !.seen = IF last.pc \in {"workouts", "details"}
                          THEN @ \cup {db} ELSE @]

(* another request deletes a workout of its caller *)
ConcurrentDeleteWorkout(caller, workoutId) ==
    /\ CanWrite
    /\ LET out == deleteWorkout(Store, caller, workoutId)
       IN  /\ out.error = ErrNone
           /\ SetStore(out.db)
           /\ last' = Seen(out.db)
    /\ writes' = writes + 1
    /\ UNCHANGED nextId

(* another request inserts a link *)
ConcurrentInsertWorkoutExercise(w, e, order) ==
    /\ CanWrite
    /\ w \in workouts /\ e \in exercises
    /\ LET db == [Store EXCEPT !.workoutExercises = @ \cup
                     {[id |-> nextId.workoutExercises, workoutId |-> w.id,
                       exerciseId |-> e.id, order |-> order]}]
       IN  SetStore(db) /\ last' = Seen(db)
    /\ nextId' = [nextId EXCEPT !.workoutExercises = @ + 1]
    /\ writes' = writes + 1

(* another request inserts a set *)
ConcurrentInsertSet(l, setNumber, weight, reps) ==
    /\ CanWrite
    /\ l \in workoutExercises
    /\ LET db == [Store EXCEPT !.sets = @ \cup
                     {[id |-> nextId.sets, workoutExerciseId |-> l.id,
                       setNumber |-> setNumber, weight |-> weight,
                       reps |-> reps]}]
       IN  SetStore(db) /\ last' = Seen(db)
    /\ nextId' = [nextId EXCEPT !.sets = @ + 1]
    /\ writes' = writes + 1

ListingNext ==
    \/ \E caller \in Callers, date \in ListDates : BeginListing(caller, date)
    \/ QueryWorkouts
    \/ \E i \in 1 .. MaxWorkouts : QueryExercises(i)
    \/ \E i \in 1 .. MaxWorkouts, j \in 1 .. MaxWrites : QuerySets(i, j)
    \/ Assemble
    \/ ListingReturn
    \/ \E caller \in Users, workoutId \in WorkoutIds :
          ConcurrentDeleteWorkout(caller, workoutId)
    \/ \E w \in workouts, e \in exercises, order \in Orders :
          ConcurrentInsertWorkoutExercise(w, e, order)
    \/ \E l \in workoutExercises, setNumber \in SetNumbers,
          weight \in Weights, reps \in Reps :
          ConcurrentInsertSet(l, setNumber, weight, reps)

ListingSpec == ListingInit /\ [][ListingNext]_vars

(* the listing alone on a store nobody writes to: only the order in which
   the store answers the queries in flight varies *)
ScheduleInit ==
    /\ \E db \in {Diary, Busy} :
          /\ workouts = db.workouts
          /\ exercises = db.exercises
          /\ workoutExercises = db.workoutExercises
          /\ sets = db.sets
          /\ nextId = [workouts |-> Cardinality(db.workouts) + 1,
                       exercises |-> Cardinality(db.exercises) + 1,
                       workoutExercises |->
                           Cardinality(db.workoutExercises) + 1,
                       sets |-> Cardinality(db.sets) + 1]
    /\ writes = 0
    /\ last = Idle

ScheduleNext ==
    \/ \E caller \in Callers, date \in ListDates : BeginListing(caller, date)
    \/ QueryWorkouts
    \/ \E i \in 1 .. MaxWorkouts : QueryExercises(i)
    \/ \E i \in 1 .. MaxWorkouts, j \in 1 .. MaxWrites : QuerySets(i, j)
    \/ Assemble
    \/ ListingReturn

ScheduleSpec == ScheduleInit /\ [][ScheduleNext]_vars

----------------------------------------------------------------------------
(* The dashboard: the date selector runs in the caller's browser, the page
   and getUserWorkoutsByDate on the server.  Timestamps are instants; the
   server's clock reads an instant t as tick t % DayTicks of day
   t \div DayTicks, a caller in zone z reads it as t + z.  Here last holds
   the navigation: the zone of the caller, the day picked, the date
   parameter of the URL and what the page computed. *)

CallerZones == {0 - 1, 0, 1}        \* the caller's offset from the server
PickDays == {1, 2, 3, 4}
Nows == {2, 3}                      \* the server's clock at a request

(* the Date the calendar hands to onSelect: midnight of the day picked, in
   the zone of the browser *)
LocalMidnight(zone, day) == day * DayTicks - zone

(* date.toISOString(): the instant written in UTC, the zone is not in it *)
ToISOString(date) == [utc |-> date]

(* new Date(params.date) of such a string *)
NewDate(str) == str.utc

Browsing ==
    [op |-> "idle", caller |-> NoUser, zone |-> 0, picked |-> 0,
     param |-> {}, selectedDate |-> 0, dayStart |-> 0, dayEnd |-> 0,
     error |-> ErrNone, result |-> <<>>]

DashboardInit ==
    /\ \E db \in {Empty, Diary} :
          /\ workouts = db.workouts
          /\ exercises = db.exercises
          /\ workoutExercises = db.workoutExercises
          /\ sets = db.sets
          /\ nextId = [workouts |-> Cardinality(db.workouts) + 1,
                       exercises |-> Cardinality(db.exercises) + 1,
                       workoutExercises |->
                           Cardinality(db.workoutExercises) + 1,
                       sets |-> Cardinality(db.sets) + 1]
    /\ writes = 0
    /\ last = Browsing

(* DateSelector.handleDateSelect: router.push with date set *)
HandleDateSelect(zone, day) ==
    /\ last.op = "idle"
    /\ last' = [Browsing EXCEPT !.op = "pushed", !.zone = zone,
                    !.picked = day,
                    !.param = {ToISOString(LocalMidnight(zone, day))}]
    /\ UNCHANGED <<tables, nextId, writes>>

(* DashboardPage: the selected date from the parameter or the clock, then
   getUserWorkoutsByDate(selectedDate) *)
DashboardPage(caller, now) ==
    /\ last.op \in {"idle", "pushed"}
    /\ LET selectedDate == IF last.param = {} THEN now
                           ELSE CHOOSE d \in {NewDate(str) : str \in last.param} :
                                   TRUE
       IN  \E out \in getUserWorkoutsByDate(Store, caller, selectedDate) :
              last' = [last EXCEPT
                  !.op = "rendered", !.caller = caller,
                  !.selectedDate = selectedDate,
                  !.dayStart = IF out.error = ErrNone
                               THEN startOfDay(selectedDate) ELSE 0,
                  !.dayEnd = IF out.error = ErrNone
                             THEN endOfDay(selectedDate) ELSE 0,
                  !.error = out.error, !.result = out.result]
    /\ UNCHANGED <<tables, nextId, writes>>

(* the caller leaves the page *)
LeaveDashboard ==
    /\ last.op = "rendered"
    /\ last' = Browsing
    /\ UNCHANGED <<tables, nextId, writes>>

DashboardNext ==
    \/ \E zone \in CallerZones, day \in PickDays : HandleDateSelect(zone, day)
    \/ \E caller \in Callers, now \in Nows : DashboardPage(caller, now)
    \/ LeaveDashboard

DashboardSpec == DashboardInit /\ [][DashboardNext]_vars

----------------------------------------------------------------------------
(* Requests in flight.  A mutating helper awaits auth() and then sends one
   statement, which the store serves in one step; two requests are in flight
   at a time and their statements are served in either order.  Here last
   maps each slot to the request it holds. *)

Slots == {1, 2}

Resting ==
    [op |-> "none", pc |-> "idle", caller |-> NoUser, id |-> 0, data |-> {},
     error |-> ErrNone, value |-> {}, raced |-> FALSE, at |-> 0,
     owned |-> FALSE]

(* the requests: creates with and without a session, updates of the name
   or of the completion timestamp and deletes by signed-in users *)
RaceRequests ==
    [op : {"create"}, caller : Callers, id : {0},
     data : {{d} : d \in {c \in CreateData :
                              c.userId = NoUser /\ c.startedAt = 0}}] \cup
    [op : {"update"}, caller : Users, id : 1 .. MaxWorkouts,
     data : {{d} : d \in {u \in UpdateData : u.startedAt = KeepTime}}] \cup
    [op : {"delete"}, caller : Users, id : 1 .. MaxWorkouts, data : {{}}]

RaceInit ==
    /\ \E db \in {Empty, Shared} :
          /\ workouts = db.workouts
          /\ exercises = db.exercises
          /\ workoutExercises = db.workoutExercises
          /\ sets = db.sets
          /\ nextId = [workouts |-> Cardinality(db.workouts) + 1,
                       exercises |-> Cardinality(db.exercises) + 1,
                       workoutExercises |->
                           Cardinality(db.workoutExercises) + 1,
                       sets |-> Cardinality(db.sets) + 1]
    /\ writes = 0
    /\ last = [slot \in Slots |-> Resting]

(* the helper is called and auth() resolves: without a session it throws;
   owned tells whether the workout asked for was the caller's then *)
BeginRequest(slot, request) ==
    /\ last[slot].pc = "idle"
    /\ last' = [last EXCEPT ![slot] =
          [Resting EXCEPT
              !.op = request.op, !.caller = request.caller,
              !.id = request.id, !.data = request.data,
              !.owned = \E w \in workouts :
                           w.id = request.id /\ w.userId = request.caller,
              !.pc = IF request.caller = NoUser THEN "done" ELSE "called",
              !.error = IF request.caller = NoUser THEN ErrUnauthorized
                        ELSE ErrNone]]
    /\ UNCHANGED <<tables, nextId, writes>>

(* what the helper of the request does on the store db *)
Served(db, request, id) ==
    IF request.op = "create"
    THEN createWorkout(db, request.caller,
                       CHOOSE d \in request.data : TRUE, id)
    ELSE IF request.op = "update"
    THEN updateWorkout(db, request.caller, request.id,
                       CHOOSE d \in request.data : TRUE)
    ELSE deleteWorkout(db, request.caller, request.id)

(* the store serves the statement of the request; raced tells whether the
   request of the other slot was waiting for its own statement then, at how
   many statements had written to the store once this one was served *)
ServeStatement(slot) ==
    /\ last[slot].pc = "called" /\ CanWrite
    /\ last[slot].op = "create" => nextId.workouts <= MaxWorkouts
    /\ LET out == Served(Store, last[slot], nextId.workouts)
       IN  /\ SetStore(out.db)
           /\ nextId' = IF last[slot].op = "create" /\ out.error = ErrNone
                        THEN [nextId EXCEPT !.workouts = @ + 1] ELSE nextId
           /\ writes' = Wrote(out.db)
           /\ last' = [last EXCEPT ![slot] =
                  [@ EXCEPT !.pc = "done", !.error = out.error,
                            !.value = out.value, !.at = Wrote(out.db),
                            !.raced = \E other \in Slots \ {slot} :
                                         last[other].pc = "called"]]

(* the helper returns or throws *)
ReturnRequest(slot) ==
    /\ last[slot].pc = "done"
    /\ last' = [last EXCEPT ![slot] = Resting]
    /\ UNCHANGED <<tables, nextId, writes>>

RaceNext ==
    \/ \E slot \in Slots, request \in RaceRequests :
          BeginRequest(slot, request)
    \/ \E slot \in Slots : ServeStatement(slot)
    \/ \E slot \in Slots : ReturnRequest(slot)

RaceSpec == RaceInit /\ [][RaceNext]_vars

----------------------------------------------------------------------------
(* The forms and the server action, step by step.  Here last holds one
   client (the new-workout form, the edit form, or a program calling
   createWorkoutAction directly), the call it has in flight and what the
   action has done for it so far. *)

MaxMutations == 1      \* the mutations that succeed while a client is watched

Space == " "

(* texts of the name input: empty, blank, a name between blanks *)
NameFields == {<<>>, <<Space>>, <<Space, "a", Space>>}

(* values of the datetime-local input: a moment and a year of five
   digits, which is not of the form YYYY-MM-DDTHH:MM *)
StartedAtFields ==
    {[match |-> TRUE, day |-> 0, tick |-> 0],
     [match |-> FALSE, day |-> 0, tick |-> 0]}

RECURSIVE TrimStart(_)
TrimStart(text) ==
    IF text # <<>> /\ Head(text) = Space THEN TrimStart(Tail(text)) ELSE text

RECURSIVE TrimEnd(_)
TrimEnd(text) ==
    IF text # <<>> /\ text[Len(text)] = Space
    THEN TrimEnd(SubSeq(text, 1, Len(text) - 1)) ELSE text

(* String.prototype.trim *)
Trim(text) == TrimEnd(TrimStart(text))

(* the string of a text *)
RECURSIVE StringOf(_)
StringOf(text) ==
    IF text = <<>> THEN "" ELSE Head(text) \o StringOf(Tail(text))

(* name || null, without the trim *)
TrimOrNull_NoTrim(text) ==
    IF StringOf(text) = "" THEN NullName ELSE StringOf(text)

(* name.trim() || null *)
TrimOrNull(text) ==
    IF StringOf(Trim(text)) = "" THEN NullName ELSE StringOf(Trim(text))

Forms == {"new", "edit"}
Clients == Forms \cup {"direct"}

NullError == "<no error>"          \* the error state of a form is null

ErrStore == "Error connecting to database: fetch failed"
ErrRevalidate == "Invariant: static generation store missing in revalidatePath /dashboard"
ErrFetch == "Failed to fetch"
ErrUnknown == "Unknown error"
ErrUnexpected == "An unexpected error occurred"

(* thrown values: an Error with its message, a ZodError with its issues, a
   value that is not an Error *)
Error(message) ==
    [isError |-> TRUE, zod |-> FALSE, message |-> message, issues |-> {}]

ZodError(issues) ==
    [isError |-> TRUE, zod |-> TRUE, message |-> "ZodError",
     issues |-> issues]

NonError ==
    [isError |-> FALSE, zod |-> FALSE, message |-> "", issues |-> {}]

(* what the awaited action call settles to *)
Pending ==
    [settled |-> "pending", success |-> FALSE, error |-> ErrNone,
     issues |-> {}, workout |-> {}]

Resolved(success, error, issues, workout) ==
    [settled |-> "resolved", success |-> success, error |-> error,
     issues |-> issues, workout |-> workout]

Rejected(thrown) ==
    [settled |-> "rejected", success |-> FALSE, error |-> thrown.message,
     issues |-> {}, workout |-> {}]

(* a catch block that handles ZodError only and rethrows the rest *)
Caught_ZodOnly(thrown) ==
    IF thrown.zod
    THEN Resolved(FALSE, ErrValidation, thrown.issues, {})
    ELSE Rejected(thrown)

(* the catch block of the action *)
Caught(thrown) ==
    IF thrown.zod
    THEN Resolved(FALSE, ErrValidation, thrown.issues, {})
    ELSE Resolved(FALSE,
                  IF thrown.isError THEN thrown.message ELSE ErrUnknown,
                  {}, {})

(* where the action goes after the helper when revalidatePath sits in a
   finally block *)
AfterHelper_Finally(out) == "revalidate"

(* where the action goes after the helper: a throw leaves the try block *)
AfterHelper(out) == IF out.error # ErrNone THEN "respond" ELSE "revalidate"

Unmounted ==
    [client |-> "none", pc |-> "unmounted", caller |-> NoUser, id |-> 0,
     nameField |-> <<>>,
     startedAtField |-> [match |-> TRUE, day |-> 0, tick |-> 0],
     isSubmitting |-> FALSE, error |-> NullError, navigations |-> 0,
     inFlight |-> 0, data |-> {}, passed |-> {}, value |-> {},
     events |-> <<>>, response |-> Pending, thrown |-> FALSE]

(* disabled={isSubmitting} on the two inputs and the two buttons *)
Disabled(form, control) == form.isSubmitting

(* handleSubmit up to its await, without setIsSubmitting(true) *)
handleSubmit_NoDisable(form) ==
    [form EXCEPT
        !.error = NullError,
        !.inFlight = @ + 1,
        !.data = {[name |-> TrimOrNull(form.nameField),
                   startedAt |-> form.startedAtField, userId |-> NoUser]},
        !.pc = "validate", !.passed = {}, !.value = {}, !.events = <<>>,
        !.response = Pending, !.thrown = FALSE]

(* handleSubmit up to its await *)
handleSubmit(form) ==
    [form EXCEPT
        !.isSubmitting = TRUE,
        !.error = NullError,
        !.inFlight = @ + 1,
        !.data = {[name |-> TrimOrNull(form.nameField),
                   startedAt |-> form.startedAtField, userId |-> NoUser]},
        !.pc = "validate", !.passed = {}, !.value = {}, !.events = <<>>,
        !.response = Pending, !.thrown = FALSE]

Fallback(form) ==
    IF form.client = "edit" THEN "Failed to update workout"
    ELSE "Failed to create workout"

(* handleSubmit after its await, when the call resolved *)
onResult(form, result) ==
    IF result.success
    THEN [form EXCEPT !.navigations = @ + 1, !.pc = "navigated",
                      !.inFlight = @ - 1]
    ELSE [form EXCEPT
             !.error = IF result.error = "" THEN Fallback(form)
                       ELSE result.error,
             !.isSubmitting = FALSE, !.pc = "idle", !.inFlight = @ - 1]

(* the catch block of handleSubmit without setIsSubmitting(false) *)
onThrown_StaysDisabled(form, thrown) ==
    [form EXCEPT
        !.error = IF thrown.isError THEN thrown.message ELSE ErrUnexpected,
        !.pc = "idle", !.inFlight = @ - 1, !.thrown = TRUE]

(* the catch block of handleSubmit *)
onThrown(form, thrown) ==
    [form EXCEPT
        !.error = IF thrown.isError THEN thrown.message ELSE ErrUnexpected,
        !.isSubmitting = FALSE, !.pc = "idle", !.inFlight = @ - 1,
        !.thrown = TRUE]

FormInit ==
    /\ \E db \in {Empty, Diary} :
          /\ workouts = db.workouts
          /\ exercises = db.exercises
          /\ workoutExercises = db.workoutExercises
          /\ sets = db.sets
          /\ nextId = [workouts |-> Cardinality(db.workouts) + 1,
                       exercises |-> Cardinality(db.exercises) + 1,
                       workoutExercises |->
                           Cardinality(db.workoutExercises) + 1,
                       sets |-> Cardinality(db.sets) + 1]
    /\ writes = 0
    /\ last = Unmounted

(* a page renders its form, or a program gets ready to call the action; the
   edit form is rendered for a workout of the caller and starts with the
   text of its name *)
Mount(client, caller, id, text) ==
    /\ last.pc = "unmounted"
    /\ IF client = "edit"
       THEN EditWorkoutPage(Store, caller, id) = "edit-form"
       ELSE id = 0 /\ text = <<>>
    /\ last' = [Unmounted EXCEPT !.client = client, !.pc = "idle",
                                 !.caller = caller, !.id = id,
                                 !.nameField = text]
    /\ UNCHANGED <<tables, nextId, writes>>

(* onChange of the name input *)
TypeName(text) ==
    /\ last.client \in Forms /\ last.pc = "idle"
    /\ ~Disabled(last, "name")
    /\ text # last.nameField
    /\ last' = [last EXCEPT !.nameField = text]
    /\ UNCHANGED <<tables, nextId, writes>>

(* onChange of the datetime-local input *)
PickStartedAt(str) ==
    /\ last.client \in Forms /\ last.pc = "idle"
    /\ ~Disabled(last, "startedAt")
    /\ str # last.startedAtField
    /\ last' = [last EXCEPT !.startedAtField = str]
    /\ UNCHANGED <<tables, nextId, writes>>

(* the session ends while the form is open *)
SignOut ==
    /\ last.client \in Forms /\ last.pc = "idle"
    /\ last.caller # NoUser
    /\ last' = [last EXCEPT !.caller = NoUser]
    /\ UNCHANGED <<tables, nextId, writes>>

(* the form is submitted with its submit button *)
Submit ==
    /\ last.client \in Forms
    /\ last.pc \notin {"unmounted", "navigated"}
    /\ ~Disabled(last, "submit")
    /\ last' = handleSubmit(last)
    /\ UNCHANGED <<tables, nextId, writes>>

(* a program calls createWorkoutAction with a payload of its own *)
Call(data) ==
    /\ last.client = "direct" /\ last.pc = "idle"
    /\ last' = [last EXCEPT !.inFlight = @ + 1, !.data = {data},
                            !.pc = "validate"]
    /\ UNCHANGED <<tables, nextId, writes>>

(* CreateWorkoutSchema.parse(data) *)
Validate ==
    /\ last.pc = "validate"
    /\ LET data == CHOOSE d \in last.data : TRUE
       IN  last' = IF Issues(data) # {}
                   THEN [last EXCEPT
                            !.pc = "respond",
                            !.response = Caught(ZodError(Issues(data)))]
                   ELSE [last EXCEPT !.pc = "helper"]
    /\ UNCHANGED <<tables, nextId, writes>>

(* what the action hands to its helper *)
WorkoutData(data) ==
    [name |-> data.name, startedAt |-> ParseDate(data.startedAt),
     userId |-> NoUser]

(* await createWorkout({...}), or await updateWorkout(workoutId, {...}) in
   the action of the edit form: the helper returns or throws on its own *)
CallHelper ==
    /\ last.pc = "helper"
    /\ LET data == WorkoutData(CHOOSE d \in last.data : TRUE)
           out == IF last.client = "edit"
                  THEN updateWorkout(Store, last.caller, last.id,
                                     [name |-> data.name,
                                      startedAt |-> data.startedAt,
                                      completedAt |-> KeepTime])
                  ELSE createWorkout(Store, last.caller, data,
                                     nextId.workouts)
       IN  /\ out.db # Store => writes < MaxMutations
           /\ (last.client # "edit" /\ out.error = ErrNone) =>
                  nextId.workouts <= MaxWorkouts
           /\ SetStore(out.db)
           /\ nextId' = IF last.client # "edit" /\ out.error = ErrNone
                        THEN [nextId EXCEPT !.workouts = @ + 1] ELSE nextId
           /\ writes' = Wrote(out.db)
           /\ last' = [last EXCEPT
                  !.pc = AfterHelper(out),
                  !.passed = {data},
                  !.value = out.value,
                  !.events = Append(@, "helper"),
                  !.response = IF out.error # ErrNone
                               THEN Caught(Error(out.error)) ELSE @]

(* the helper's statement fails in the store: the driver throws *)
HelperFails(thrown) ==
    /\ last.pc = "helper" /\ last.caller # NoUser
    /\ last' = [last EXCEPT
           !.pc = "respond",
           !.passed = {WorkoutData(CHOOSE d \in last.data : TRUE)},
           !.events = Append(@, "helper"),
           !.response = Caught(thrown)]
    /\ UNCHANGED <<tables, nextId, writes>>

(* revalidatePath('/dashboard'); return { success: true, workout } *)
Revalidate ==
    /\ last.pc = "revalidate"
    /\ last' = [last EXCEPT
           !.pc = "respond",
           !.events = Append(@, "revalidatePath"),
           !.response = Resolved(TRUE, ErrNone, {}, last.value)]
    /\ UNCHANGED <<tables, nextId, writes>>

(* revalidatePath('/dashboard') throws *)
RevalidateFails(thrown) ==
    /\ last.pc = "revalidate"
    /\ last' = [last EXCEPT
           !.pc = "respond",
           !.events = Append(@, "revalidatePath"),
           !.response = Caught(thrown)]
    /\ UNCHANGED <<tables, nextId, writes>>

(* the awaited call settles with what the action returned or threw *)
Settle ==
    /\ last.pc = "respond"
    /\ last' = IF last.client = "direct"
               THEN [last EXCEPT !.pc = "settled", !.inFlight = @ - 1]
               ELSE IF last.response.settled = "resolved"
               THEN onResult(last, last.response)
               ELSE onThrown(last, [NonError EXCEPT
                                       !.isError = TRUE,
                                       !.message = last.response.error])
    /\ UNCHANGED <<tables, nextId, writes>>

(* the request or its response is lost: the awaited call rejects *)
CallRejects(thrown) ==
    /\ last.pc \in {"validate", "helper", "revalidate", "respond"}
    /\ last' = IF last.client = "direct"
               THEN [last EXCEPT !.pc = "settled", !.inFlight = @ - 1,
                                 !.thrown = TRUE]
               ELSE onThrown(last, thrown)
    /\ UNCHANGED <<tables, nextId, writes>>

(* the client leaves: after navigation, with the cancel button, or when the
   program is done *)
Leave ==
    /\ \/ last.pc \in {"navigated", "settled"}
       \/ last.pc = "idle" /\ ~Disabled(last, "cancel")
    /\ last' = Unmounted
    /\ UNCHANGED <<tables, nextId, writes>>

(* the steps of the action on the server *)
ServerStep ==
    \/ Validate
    \/ CallHelper
    \/ \E thrown \in {Error(ErrStore), NonError} : HelperFails(thrown)
    \/ Revalidate
    \/ RevalidateFails(Error(ErrRevalidate))

FormNext ==
    \/ \E client \in Clients, caller \in Callers, id \in 0 .. MaxWorkouts,
          text \in NameFields : Mount(client, caller, id, text)
    \/ \E text \in NameFields : TypeName(text)
    \/ \E str \in StartedAtFields : PickStartedAt(str)
    \/ SignOut
    \/ Submit
    \/ \E data \in CreatePayloads : Call(data)
    \/ ServerStep
    \/ Settle
    \/ \E thrown \in {Error(ErrFetch), NonError} : CallRejects(thrown)
    \/ Leave

FormSpec == FormInit /\ [][FormNext]_vars

(* the action runs to its end and the awaited call settles *)
FormLive ==
    FormSpec /\ WF_vars(ServerStep) /\ WF_vars(Settle)

----------------------------------------------------------------------------
(* The duration on a workout card.  Timestamps are instants counted in
   ticks, MinuteTicks of them to the minute.  Here last holds the card: the
   two timestamps of its workout and the text rendered for the duration. *)

MinuteTicks == 2
HourMinutes == 60

(* differenceInMinutes(dateLeft, dateRight): full minutes, rounded towards
   zero *)
differenceInMinutes(dateLeft, dateRight) ==
    IF dateLeft >= dateRight
    THEN (dateLeft - dateRight) \div MinuteTicks
    ELSE 0 - ((dateRight - dateLeft) \div MinuteTicks)

calculateDuration(startedAt, completedAt) ==
    IF completedAt = NullTime THEN "In progress"
    ELSE LET minutes == differenceInMinutes(completedAt, startedAt)
         IN  IF minutes < HourMinutes
             THEN ToString(minutes) \o " min"
             ELSE ToString(minutes \div HourMinutes) \o "h " \o
                  ToString(minutes % HourMinutes) \o "m"

(* the duration part of the CardDescription *)
CardDescription(workout) ==
    IF workout.completedAt # NullTime
    THEN calculateDuration(workout.startedAt, workout.completedAt)
    ELSE "In progress"

(* start timestamps: the first instant, and one an hour and a minute
   later; completion timestamps: none, or any instant of the first two
   hours and five minutes *)
CardStarts == {0, (HourMinutes + 1) * MinuteTicks}
CardEnds == {NullTime} \cup (0 .. ((2 * HourMinutes + 5) * MinuteTicks + 1))

NoCard == [pc |-> "none", startedAt |-> 0, completedAt |-> NullTime,
           text |-> ""]

CardInit ==
    /\ workouts = {} /\ exercises = {} /\ workoutExercises = {}
    /\ sets = {}
    /\ nextId = [workouts |-> 1, exercises |-> 1, workoutExercises |-> 1,
                 sets |-> 1]
    /\ writes = 0
    /\ last = NoCard

(* the list is handed a workout *)
PassWorkout(startedAt, completedAt) ==
    /\ last.pc = "none"
    /\ last' = [NoCard EXCEPT !.pc = "passed", !.startedAt = startedAt,
                              !.completedAt = completedAt]
    /\ UNCHANGED <<tables, nextId, writes>>

(* WorkoutsList renders the card of the workout *)
RenderCard ==
    /\ last.pc = "passed"
    /\ last' = [last EXCEPT !.pc = "rendered",
                            !.text = CardDescription(last)]
    /\ UNCHANGED <<tables, nextId, writes>>

(* the dashboard is left *)
DropCard ==
    /\ last.pc = "rendered"
    /\ last' = NoCard
    /\ UNCHANGED <<tables, nextId, writes>>

CardNext ==
    \/ \E startedAt \in CardStarts, completedAt \in CardEnds :
          PassWorkout(startedAt, completedAt)
    \/ RenderCard
    \/ DropCard

CardSpec == CardInit /\ [][CardNext]_vars

----------------------------------------------------------------------------
(* Properties *)

Range(f) == {f[i] : i \in DOMAIN f}

(* the workout columns of one entry of a listing *)
RowOf(entry) ==
    [id |-> entry.id, userId |-> entry.userId, name |-> entry.name,
     startedAt |-> entry.startedAt, completedAt |-> entry.completedAt]

(* the caller owns a workout with this id *)
Owns(caller, workoutId) ==
    \E w \in workouts : w.id = workoutId /\ w.userId = caller

(* t lies in the calendar day of date *)
SameDay(t, date) == t \div DayTicks = date \div DayTicks

(* C1: getWorkoutById called by a user for an id the user owns no workout
   under returns null and the edit page renders not-found, whether the id
   belongs to another user's workout or to none. *)
C1_NotFoundForOthers ==
    (last.op = "getById" /\ last.caller \in Users
        /\ ~Owns(last.caller, last.id))
    => (last.error = ErrNone /\ last.value = {} /\ last.page = "not-found")

C1_Witness ==
    /\ last.op = "getById" /\ last.caller \in Users
    /\ \E w \in workouts : w.id = last.id /\ w.userId # last.caller
    /\ last.value = {}

(* C2: a create that succeeds stores one row, and its owner is the caller,
   whatever owner field the input carried. *)
C2_OwnerIsCaller ==
    (last.op \in {"create", "createAction"} /\ last.error = ErrNone)
    => /\ last.caller \in Users
       /\ \E row \in workouts :
             last.value = {row} /\ row.userId = last.caller

C2_Witness ==
    /\ last.op \in {"create", "createAction"} /\ last.error = ErrNone
    /\ \E data \in last.data :
          data.userId \in Users /\ data.userId # last.caller
    /\ \E row \in workouts : last.value = {row}

(* C3: the listing holds, once each, exactly the caller's workouts whose
   start lies in the day of the date, first and last tick included. *)
C3_ExactlyTheDay ==
    (last.op = "list" /\ last.error = ErrNone)
    => /\ {RowOf(last.result[i]) : i \in DOMAIN last.result}
            = {w \in workouts :
                  w.userId = last.caller /\ SameDay(w.startedAt, last.date)}
       /\ \A i, j \in DOMAIN last.result :
             last.result[i].id = last.result[j].id => i = j

C3_Witness ==
    /\ last.op = "list" /\ last.error = ErrNone
    /\ \E i \in DOMAIN last.result :
          (last.result[i].startedAt + 1) % DayTicks = 0
    /\ \E w \in workouts :
          w.userId # last.caller /\ SameDay(w.startedAt, last.date)

(* the store without the workouts of the other users, their links and the
   sets of those links; the catalog belongs to nobody and stays *)
OwnedBy(db, user) ==
    LET ws == {w \in db.workouts : w.userId = user}
        ls == {l \in db.workoutExercises :
                  \E w \in ws : w.id = l.workoutId}
    IN  [workouts |-> ws, exercises |-> db.exercises,
         workoutExercises |-> ls,
         sets |-> {x \in db.sets : \E l \in ls : l.id = x.workoutExerciseId}]

(* C4: what a user's listing may return is decided by the rows the user
   owns: it is the same on the store with every other user's workouts,
   links and sets taken out, and no entry of it is another user's workout. *)
C4_NonInterference ==
    /\ \A user \in Users, date \in ListDates :
          ListResults(Store, user, date)
              = ListResults(OwnedBy(Store, user), user, date)
    /\ (last.op = "list" /\ last.caller \in Users)
       => /\ last.result \in
                ListResults(OwnedBy(Store, last.caller), last.caller,
                            last.date)
          /\ \A i \in DOMAIN last.result :
                last.result[i].userId = last.caller

C4_Witness ==
    /\ last.op = "list" /\ last.caller \in Users
    /\ Len(last.result) = 1
    /\ \E w \in workouts :
          /\ w.userId # last.caller /\ SameDay(w.startedAt, last.date)
          /\ \E l \in workoutExercises : l.workoutId = w.id

(* C5: an update or delete by a caller leaves every workout of another
   owner as it is, and when the caller owns no workout with the id the call
   fails and no row of any table changes. *)
C5_OthersUntouched ==
    [][last'.op \in {"update", "delete"}
        => /\ \A w \in workouts : w.userId # last'.caller => w \in workouts'
           /\ ~Owns(last'.caller, last'.id)
                 => (last'.error # ErrNone /\ tables' = tables)]_vars

C5_Witness ==
    /\ last.op \in {"update", "delete"} /\ last.caller \in Users
    /\ last.error # ErrNone
    /\ \E w \in workouts : w.id = last.id /\ w.userId # last.caller

(* C6: an update or delete by a user who owns no workout with the id ends
   in one and the same outcome, whether or not a workout with that id
   exists: the not-found-or-unauthorized error and no row. *)
C6_SameError ==
    [][(last'.op \in {"update", "delete"} /\ last'.caller \in Users
            /\ ~Owns(last'.caller, last'.id))
        => (last'.error = ErrNotFound /\ last'.value = {}
                /\ last'.dbCalls = 1)]_vars

C6_Witness ==
    /\ last.op = "update" /\ last.caller \in Users
    /\ last.error = ErrNotFound
    /\ \E w \in workouts : w.id = last.id /\ w.userId # last.caller

(* C7: without a caller identity a data helper rejects with Unauthorized,
   has sent no statement to the store and returns nothing, and the store is
   unchanged; createWorkoutAction passes that rejection on when it gets as
   far as calling createWorkout. *)
C7_UnauthorizedFirst ==
    [][(last'.op # "none" /\ last'.caller = NoUser)
        => /\ tables' = tables
           /\ last'.dbCalls = 0
           /\ last'.value = {} /\ last'.result = <<>>
           /\ last'.op \in {"list", "getById", "create", "update", "delete"}
                 => last'.error = ErrUnauthorized
           /\ (last'.op = "createAction" /\ last'.calls = 1)
                 => last'.error = ErrUnauthorized]_vars

C7_Witness ==
    /\ last.op = "list" /\ last.caller = NoUser
    /\ last.error = ErrUnauthorized
    /\ \E w \in workouts : SameDay(w.startedAt, last.date)

(* the workout ids handed out so far that no row holds any more *)
DeletedIds ==
    {id \in 1 .. (nextId.workouts - 1) : \A w \in workouts : w.id # id}

(* C8: a delete that succeeds leaves no link of the workout and no set of
   those links, and from then on no link refers to the workout and no
   listing holds it. *)
C8_CascadeAndAbsence ==
    /\ [][(last'.op = "delete" /\ last'.error = ErrNone)
            => LET gone == {l.id : l \in {x \in workoutExercises :
                                            x.workoutId = last'.id}}
               IN  /\ \A w \in workouts' : w.id # last'.id
                   /\ \A l \in workoutExercises' : l.workoutId # last'.id
                   /\ \A x \in sets' : x.workoutExerciseId \notin gone]_vars
    /\ [](\A id \in DeletedIds :
            /\ \A l \in workoutExercises : l.workoutId # id
            /\ \A x \in sets :
                  \E l \in workoutExercises : l.id = x.workoutExerciseId
            /\ last.op = "list"
                  => \A i \in DOMAIN last.result : last.result[i].id # id)

C8_Witness ==
    /\ last.op = "list" /\ last.caller \in Users /\ Len(last.result) > 0
    /\ DeletedIds # {}
    /\ nextId.sets > 1 /\ sets = {} /\ exercises = Catalog

(* a sequence of records is in ascending order of a field *)
Ascending(q, field) ==
    \A i, j \in DOMAIN q : i < j => q[i][field] <= q[j][field]

(* C9: in a listing the workouts ascend by start timestamp, the exercises
   of each workout by order position, the sets of each exercise by set
   number. *)
C9_Ordered ==
    (last.op = "list" /\ last.error = ErrNone)
    => /\ Ascending(last.result, "startedAt")
       /\ \A i \in DOMAIN last.result :
             /\ Ascending(last.result[i].exercises, "order")
             /\ \A j \in DOMAIN last.result[i].exercises :
                   Ascending(last.result[i].exercises[j].sets, "setNumber")

C9_Witness ==
    /\ last.op = "list" /\ last.error = ErrNone
    /\ \E i \in DOMAIN last.result :
          /\ Len(last.result[i].exercises) = 2
          /\ \E l1, l2 \in workoutExercises :
                /\ l1.workoutId = last.result[i].id
                /\ l2.workoutId = last.result[i].id
                /\ l1.id < l2.id /\ l1.order > l2.order

(* what the listing has to show for a link: the linked exercise's id and
   name, the link's position and the link's sets *)
Expected(l) ==
    [id |-> l.exerciseId,
     names |-> {e.name : e \in {x \in exercises : x.id = l.exerciseId}},
     order |-> l.order,
     sets |-> {[id |-> x.id, setNumber |-> x.setNumber, weight |-> x.weight,
                reps |-> x.reps] :
                  x \in {y \in sets : y.workoutExerciseId = l.id}}]

Shown(entry) ==
    [id |-> entry.id, names |-> {entry.name}, order |-> entry.order,
     sets |-> Range(entry.sets)]

(* C10: each workout of a listing shows its links one for one, a link more
   than once when the same exercise is linked more than once, each with the
   name of its exercise and exactly its own sets, each set once; a workout
   without links shows an empty list. *)
C10_NestedExact ==
    (last.op = "list" /\ last.error = ErrNone)
    => \A i \in DOMAIN last.result :
          LET shown == last.result[i].exercises
              links == {l \in workoutExercises :
                           l.workoutId = last.result[i].id}
          IN  /\ Len(shown) = Cardinality(links)
              /\ \A l \in links :
                    Cardinality({j \in DOMAIN shown :
                                    Shown(shown[j]) = Expected(l)})
                      = Cardinality({k \in links : Expected(k) = Expected(l)})
              /\ \A j \in DOMAIN shown :
                    Len(shown[j].sets) = Cardinality(Range(shown[j].sets))

C10_Witness ==
    /\ last.op = "list" /\ last.error = ErrNone
    /\ \E i \in DOMAIN last.result :
          /\ Len(last.result[i].exercises) = 2
          /\ last.result[i].exercises[1].id = last.result[i].exercises[2].id
          /\ Len(last.result[i].exercises[1].sets) = 1
          /\ Len(last.result[i].exercises[2].sets) = 0

(* the start timestamp a create was asked for *)
AskedStart(call) ==
    {IF call.op = "create" THEN data.startedAt ELSE ParseDate(data.startedAt) :
        data \in call.data}

(* C11: a create that succeeds adds one row of the caller with the start
   timestamp asked for and no completion timestamp; a row leaves the table or
   changes only by a successful update or delete of its owner; and a listing
   by a user for a date holds every workout of that user that starts in the
   day of the date.  So a created workout is listed for its day until it is
   updated or deleted. *)
C11_CreateThenList ==
    /\ [][(last'.op \in {"create", "createAction"} /\ last'.error = ErrNone)
            => \E row \in workouts' \ workouts :
                  /\ workouts' = workouts \cup {row}
                  /\ last'.value = {row}
                  /\ row.userId = last'.caller
                  /\ AskedStart(last') = {row.startedAt}
                  /\ row.completedAt = NullTime]_vars
    /\ [][\A w \in workouts :
             \/ w \in workouts'
             \/ /\ last'.op \in {"update", "delete"} /\ last'.error = ErrNone
                /\ last'.id = w.id /\ last'.caller = w.userId]_vars
    /\ []((last.op = "list" /\ last.error = ErrNone)
            => \A w \in workouts :
                  (w.userId = last.caller /\ SameDay(w.startedAt, last.date))
                  => \E i \in DOMAIN last.result :
                        /\ RowOf(last.result[i]) = w
                        /\ last.result[i].completedAt = NullTime
                              <=> w.completedAt = NullTime)

C11_Witness ==
    /\ last.op = "list" /\ last.error = ErrNone
    /\ Len(last.result) = 2
    /\ \A i \in DOMAIN last.result :
          /\ last.result[i].completedAt = NullTime
          /\ last.result[i].startedAt = last.date

(* the payload is malformed: a name of no or of more than NameMax
   characters, or a startedAt that is not of the form YYYY-MM-DDTHH:MM *)
Malformed(data) ==
    \/ data.name # NullName /\ (Len(data.name) = 0 \/ Len(data.name) > NameMax)
    \/ ~data.startedAt.match

(* C12: createWorkoutAction on a malformed payload answers success false
   with the error Validation failed and the issues found, has not called
   createWorkout nor revalidatePath, and leaves every table as it was,
   whoever the caller is. *)
C12_ValidationFirst ==
    [][(last'.op = "createAction" /\ \E data \in last'.data : Malformed(data))
        => /\ ~last'.success /\ last'.error = ErrValidation
           /\ last'.issues # {}
           /\ last'.calls = 0 /\ ~last'.revalidated /\ last'.dbCalls = 0
           /\ last'.value = {}
           /\ tables' = tables /\ nextId' = nextId]_vars

C12_Witness ==
    /\ last.op = "createAction" /\ last.caller \in Users
    /\ \E data \in last.data : Len(data.name) > NameMax /\ data.startedAt.match
    /\ last.error = ErrValidation /\ last.issues = {"name"}
    /\ workouts # {}

(* the datetime string writes a date and a time of day that exist *)
DenotesDate(str) == str.match /\ str.tick < DayTicks

(* C13: createWorkoutAction on a startedAt that is not a well-formed date
   answers Validation failed and has not called createWorkout; createWorkout
   is called, and a row stored, only with a valid date. *)
C13_OnlyValidDates ==
    [][last'.op = "createAction"
        => \A data \in last'.data :
              /\ ~DenotesDate(data.startedAt)
                    => (last'.error = ErrValidation /\ last'.calls = 0)
              /\ last'.calls > 0 => ParseDate(data.startedAt) # InvalidDate
              /\ \A w \in workouts' : w.startedAt # InvalidDate]_vars

(* C14: a call of getUserWorkoutsByDate, whether it returns a listing or
   throws, leaves every row of the four tables as it was and hands out no
   identifier. *)
C14_ReadOnly ==
    [][last'.op = "list"
        => /\ workouts' = workouts /\ exercises' = exercises
           /\ workoutExercises' = workoutExercises /\ sets' = sets
           /\ nextId' = nextId]_vars

C14_Witness ==
    /\ last.op = "list" /\ last.error = ErrNone
    /\ \E i \in DOMAIN last.result :
          \E j \in DOMAIN last.result[i].exercises :
             Len(last.result[i].exercises[j].sets) = 2
    /\ \E w \in workouts : w.userId # last.caller

(* C15: a listing that returns, whatever other requests wrote while its
   queries were served, returns a value the listing has on one of the stores
   that existed between its begin and its end. *)
C15_OneStore ==
    (last.op = "list" /\ last.pc = "done" /\ last.error = ErrNone)
    => \E db \in last.seen :
          last.result \in ListResults(db, last.caller, last.date)

(* C16: when the page has listed for a day picked in the date selector,
   the range of the filter runs from the first to the last instant of that
   day on the caller's clock, whatever the caller's zone. *)
C16_CallersDay ==
    (last.op = "rendered" /\ last.param # {} /\ last.error = ErrNone)
    => /\ last.dayStart = LocalMidnight(last.zone, last.picked)
       /\ last.dayEnd = LocalMidnight(last.zone, last.picked + 1) - 1

(* C17: in every state of the store, two links of one workout have
   different order positions. *)
C17_UniqueOrder ==
    \A l1, l2 \in workoutExercises :
        (l1.workoutId = l2.workoutId /\ l1.order = l2.order) => l1 = l2

(* C18: in every state of the store each link refers to exactly one
   workout row and exactly one exercise row, and each set to exactly one
   link row. *)
C18_ReferentialIntegrity ==
    /\ \A l \in workoutExercises :
          /\ Cardinality({w \in workouts : w.id = l.workoutId}) = 1
          /\ Cardinality({e \in exercises : e.id = l.exerciseId}) = 1
    /\ \A x \in sets :
          Cardinality({l \in workoutExercises : l.id = x.workoutExerciseId}) = 1

C18_Witness ==
    /\ exercises = {} /\ workouts # {}
    /\ nextId.workoutExercises > 1 /\ workoutExercises = {}
    /\ nextId.sets > 1 /\ sets = {}

(* C19: an update leaves the exercises, the links and the sets as they
   were and every workout with another id as it was, adds and removes no
   workout, and leaves the targeted workout its id and its owner; in no step
   at all does a workout change its owner. *)
C19_UpdateFrame ==
    /\ [][last'.op = "update"
            => /\ exercises' = exercises
               /\ workoutExercises' = workoutExercises /\ sets' = sets
               /\ {w \in workouts' : w.id # last'.id}
                     = {w \in workouts : w.id # last'.id}
               /\ {[id |-> w.id, userId |-> w.userId] : w \in workouts'}
                     = {[id |-> w.id, userId |-> w.userId] : w \in workouts}
               /\ Cardinality(workouts') = Cardinality(workouts)]_vars
    /\ [][\A w1 \in workouts, w2 \in workouts' :
             w1.id = w2.id => w1.userId = w2.userId]_vars

C19_Witness ==
    /\ last.op = "update" /\ last.error = ErrNone
    /\ \E row \in last.value : row \in workouts /\ row.startedAt = 2
    /\ \E w \in workouts : w.id # last.id /\ w.userId = last.caller
    /\ workoutExercises # {}

(* both slots hold a create of one user that has succeeded, and no other
   statement has written to the store since the first of the two *)
BothCreated ==
    /\ \A slot \in Slots :
          /\ last[slot].op = "create" /\ last[slot].pc = "done"
          /\ last[slot].error = ErrNone
          /\ last[slot].at \in {writes - 1, writes}
    /\ last[1].caller = last[2].caller

(* C20: when two creates of one user, in flight together, have both
   succeeded, whichever statement was served first, each has returned one
   row, the two rows have different ids, both are owned by that user and
   both are in the store. *)
C20_BothCreated ==
    BothCreated
    => \E r1 \in workouts, r2 \in workouts :
          /\ last[1].value = {r1} /\ last[2].value = {r2}
          /\ r1.id # r2.id
          /\ r1.userId = last[1].caller /\ r2.userId = last[2].caller

C20_Witness ==
    /\ BothCreated
    /\ last[1].raced /\ ~last[2].raced
    /\ \E r1 \in last[1].value, r2 \in last[2].value :
          r1.id < r2.id /\ [r1 EXCEPT !.id = r2.id] = r2

----------------------------------------------------------------------------
(* the action has returned or thrown for a caller of createWorkoutAction *)
Responded == last.pc = "respond" /\ last.client # "edit"

(* C21: createWorkoutAction never rejects; whatever the input and whichever
   of validation, createWorkout or revalidatePath fails, it resolves to
   {success: true, workout} with the workout createWorkout returned, or to
   {success: false, error} with a non-empty error string *)
C21_StructuredResponse ==
    Responded =>
        /\ last.response.settled = "resolved"
        /\ IF last.response.success
           THEN /\ last.response.workout # {}
                /\ last.response.workout = last.value
                /\ last.events = <<"helper", "revalidatePath">>
           ELSE /\ last.response.workout = {}
                /\ Len(last.response.error) >= 1

(* createWorkout stored the workout, revalidatePath threw, and the action
   answers with a failure *)
C21_Witness ==
    /\ Responded
    /\ last.events = <<"helper", "revalidatePath">>
    /\ last.value # {}
    /\ last.response = Resolved(FALSE, ErrRevalidate, {}, {})

(* how often the event occurs in the events of the call *)
Count(events, event) ==
    Cardinality({i \in 1 .. Len(events) : events[i] = event})

(* C22: in createWorkoutAction revalidatePath('/dashboard') is called only
   after createWorkout has returned a workout, at most once, and exactly
   once before a success response; it is not called when validation or
   createWorkout fails *)
C22_RevalidateAfterSuccess ==
    last.client \in {"new", "direct"} =>
        /\ Count(last.events, "revalidatePath") <= 1
        /\ Count(last.events, "revalidatePath") = 1 =>
               /\ last.events = <<"helper", "revalidatePath">>
               /\ last.value # {}
               /\ last.value \subseteq workouts
        /\ (Responded /\ last.response.success) =>
               Count(last.events, "revalidatePath") = 1
        /\ (Responded /\ last.value = {}) =>
               /\ ~last.response.success
               /\ Count(last.events, "revalidatePath") = 0

(* the form's submission was stored and revalidated, the success response
   is on its way *)
C22_Witness ==
    /\ Responded /\ last.client = "new"
    /\ last.response.success
    /\ last.events = <<"helper", "revalidatePath">>
    /\ last.value \subseteq workouts /\ last.value # {}

(* C23: whatever order the exercise queries and the set queries in flight
   are answered in, the listing gives the workouts in the order of the
   start-timestamp query and, in each, the exercises in the order of the
   order-position query *)
C23_OrderKept ==
    (last.pc = "done" /\ last.error = ErrNone) =>
        /\ Len(last.result) = Len(last.userWorkouts)
        /\ \A k \in DOMAIN last.result :
              /\ last.result[k].id = last.userWorkouts[k].id
              /\ Len(last.result[k].exercises) = Len(last.exerciseData[k])
              /\ \A c \in DOMAIN last.result[k].exercises :
                    /\ last.result[k].exercises[c].order =
                           last.exerciseData[k][c].order
                    /\ last.result[k].exercises[c].sets =
                           last.exerciseSets[<<k, c>>]
        /\ Ascending(last.result, "startedAt")
        /\ \A k \in DOMAIN last.result :
              Ascending(last.result[k].exercises, "order")

(* two workouts with two exercises each are listed after the queries of the
   second workout were answered before those of the first, and in each the
   sets of the second exercise before those of the first *)
C23_Witness ==
    /\ last.pc = "done" /\ Len(last.result) = 2
    /\ Len(last.result[1].exercises) = 2
    /\ last.result[1].exercises[2].sets # <<>>
    /\ WorkoutSettledAt(last.completion, 2) <
           WorkoutSettledAt(last.completion, 1)
    /\ \A i \in {1, 2} :
          ExerciseSettledAt(last.completion, i, 2) <
              ExerciseSettledAt(last.completion, i, 1)

(* the calendar days of the timestamps in use, and the day after *)
CalendarDays == 0 .. (Cardinality(Days) + 1)

(* the listing of its owner for the date has the workout *)
ListedFor(w, date) ==
    \E q \in WorkoutsQuery(Store, w.userId, date) :
        \E i \in DOMAIN q : q[i].id = w.id

(* C24: the calendar days partition a user's workouts: each workout is
   listed for exactly one calendar day, the day of its start timestamp,
   whichever moment of that day is asked for; the first and the last instant
   of a day belong to that day *)
C24_DaysPartition ==
    \A w \in workouts :
        /\ Cardinality({day \in CalendarDays :
                           ListedFor(w, day * DayTicks)}) = 1
        /\ ListedFor(w, w.startedAt)
        /\ \A day \in CalendarDays, tick \in 0 .. (DayTicks - 1) :
              ListedFor(w, day * DayTicks + tick) <=>
                  ListedFor(w, day * DayTicks)
        /\ (last.op = "list" /\ last.error = ErrNone
            /\ last.caller = w.userId) =>
               (ListedFor(w, last.date) <=>
                    \E i \in DOMAIN last.result : last.result[i].id = w.id)

(* a user has a workout at the last instant of a day and one at the first
   instant of the next, and the listing of the second day has one workout *)
C24_Witness ==
    /\ last.op = "list" /\ last.error = ErrNone
    /\ last.date = DayTicks /\ Len(last.result) = 1
    /\ \E w1, w2 \in workouts :
          /\ w1.userId = last.caller /\ w2.userId = last.caller
          /\ w1.startedAt = DayTicks - 1
          /\ w2.startedAt = DayTicks
          /\ last.result[1].id = w2.id

(* C25: deleting an exercise of the catalog removes every link that refers
   to it, of every user, and every set of those links, and nothing else;
   the workouts remain and are listed afterwards without that exercise *)
C25_CatalogCascade ==
    /\ [][(exercises' # exercises /\ exercises' \subseteq exercises) =>
            LET goneIds == {e.id : e \in exercises \ exercises'}
                goneLinks == {l \in workoutExercises :
                                 l.exerciseId \in goneIds}
            IN  /\ workouts' = workouts
                /\ workoutExercises' = workoutExercises \ goneLinks
                /\ sets' = {x \in sets :
                               \A l \in goneLinks :
                                   x.workoutExerciseId # l.id}]_vars
    /\ []((last.op = "list" /\ last.error = ErrNone) =>
            /\ {RowOf(last.result[i]) : i \in DOMAIN last.result} =
                   {w \in workouts : /\ w.userId = last.caller
                                      /\ SameDay(w.startedAt, last.date)}
            /\ \A i \in DOMAIN last.result :
                  \A j \in DOMAIN last.result[i].exercises :
                      \E e \in exercises :
                          e.id = last.result[i].exercises[j].id)

(* the one exercise that the workouts of u1 and u2 had logged was deleted:
   both links and both sets are gone, and u2's workout is listed without
   exercises *)
C25_Witness ==
    /\ writes = 1 /\ exercises = {}
    /\ workouts = Shared.workouts
    /\ workoutExercises = {} /\ sets = {}
    /\ last.op = "list" /\ last.caller = "u2"
    /\ Len(last.result) = 1
    /\ last.result[1].exercises = <<>>

(* the text is empty or has whitespace only *)
Blank(text) == \A i \in DOMAIN text : text[i] = Space

(* the call submitted by the form is in flight *)
InFlight == last.pc \in {"validate", "helper", "revalidate", "respond"}

(* C26: the name createWorkoutAction passes to createWorkout is null or a
   string of 1 to 100 characters, never the empty string; and a form whose
   name field is blank or has whitespace only submits null, never an empty
   or whitespace-only name *)
C26_NameOrNull ==
    /\ last.client \in {"new", "direct"} =>
          \A passed \in last.passed :
              \/ passed.name = NullName
              \/ /\ passed.name # ""
                 /\ Len(passed.name) >= 1 /\ Len(passed.name) <= NameMax
    /\ (last.client \in Forms /\ InFlight) =>
          \A data \in last.data :
              /\ Blank(last.nameField) => data.name = NullName
              /\ \A text \in NameFields :
                    Blank(text) => data.name # StringOf(text)
              /\ data.name # NullName => Len(data.name) <= NameMax

(* the new-workout form was submitted with a name of whitespace only and
   createWorkout was called with the name null *)
C26_Witness ==
    /\ last.client = "new" /\ InFlight
    /\ last.nameField = <<Space>>
    /\ last.events = <<"helper">>
    /\ \E passed \in last.passed : passed.name = NullName

Controls == {"name", "startedAt", "submit", "cancel"}

(* C27: a form has at most one submission in flight; while it is in flight
   the inputs and both buttons are disabled; they are enabled again only
   when the action reported a failure or the call threw, and then a
   non-empty error message is shown; after a success the form stays
   disabled and the client has navigated to /dashboard exactly once *)
C27_OneSubmission ==
    /\ [](last.client \in Forms =>
            /\ last.inFlight <= 1
            /\ InFlight <=> last.inFlight = 1
            /\ InFlight => \A control \in Controls : Disabled(last, control)
            /\ last.navigations <= 1
            /\ last.navigations = 1 <=> last.pc = "navigated"
            /\ last.pc = "navigated" =>
                  /\ \A control \in Controls : Disabled(last, control)
                  /\ last.response.success)
    /\ [][(/\ last.client \in Forms /\ last'.client = last.client
           /\ \E control \in Controls :
                 Disabled(last, control) /\ ~Disabled(last', control)) =>
            /\ last'.error \notin {NullError, ""}
            /\ \/ last'.thrown
               \/ /\ last.pc = "respond"
                  /\ last.response.settled = "resolved"
                  /\ ~last.response.success
                  /\ last'.error = last.response.error
            /\ last'.navigations = 0]_vars

(* the edit form was submitted, the action reported success and the client
   has navigated to /dashboard, the form still disabled *)
C27_Witness ==
    /\ last.client = "edit" /\ last.pc = "navigated"
    /\ last.navigations = 1 /\ last.inFlight = 0
    /\ \A control \in Controls : Disabled(last, control)
    /\ last.value \subseteq workouts /\ last.value # {}

(* C28: every submission of a form terminates: if the action call
   eventually resolves or rejects, the form reaches the navigation to
   /dashboard, or isSubmitting false with an error message displayed *)
C28_SubmissionTerminates ==
    (last.client \in Forms /\ InFlight) ~>
        \/ last.pc = "navigated"
        \/ /\ ~last.isSubmitting
           /\ last.error \notin {NullError, ""}

(* a submission ended with the form enabled again and the message of the
   store failure displayed *)
C28_Witness ==
    /\ last.client \in Forms /\ last.pc = "idle"
    /\ last.events = <<"helper">>
    /\ ~last.isSubmitting /\ last.error = ErrStore

(* the texts that show a duration below zero *)
NegativeTexts ==
    {ToString(0 - m) \o " min" : m \in 1 .. (3 * HourMinutes)} \cup
    {ToString(0 - h) \o "h " \o ToString(r) \o "m" :
        h \in 1 .. 3, r \in 0 .. (HourMinutes - 1)}

(* C29: the card shows 'In progress' exactly when completedAt is absent;
   otherwise, for m >= 0 whole minutes between the timestamps, 'm min' when
   m < 60 and 'Hh Rm' with H*60 + R = m and 0 <= R <= 59 when m >= 60; it
   never shows a negative duration *)
C29_Duration ==
    last.pc = "rendered" =>
        /\ last.text = "In progress" <=> last.completedAt = NullTime
        /\ (last.completedAt # NullTime
            /\ last.completedAt >= last.startedAt) =>
              \E m \in 0 .. (3 * HourMinutes) :
                  /\ m * MinuteTicks <= last.completedAt - last.startedAt
                  /\ last.completedAt - last.startedAt <
                         (m + 1) * MinuteTicks
                  /\ IF m < HourMinutes
                     THEN last.text = ToString(m) \o " min"
                     ELSE \E H \in 1 .. 3, R \in 0 .. (HourMinutes - 1) :
                             /\ H * HourMinutes + R = m
                             /\ last.text = ToString(H) \o "h " \o
                                            ToString(R) \o "m"
        /\ last.text \notin NegativeTexts

(* C29, without its last sentence: what the card shows for a workout in
   progress and for one completed at or after its start *)
C29_DurationFromStart ==
    last.pc = "rendered" =>
        /\ last.text = "In progress" <=> last.completedAt = NullTime
        /\ (last.completedAt # NullTime
            /\ last.completedAt >= last.startedAt) =>
              \E m \in 0 .. (3 * HourMinutes) :
                  /\ m * MinuteTicks <= last.completedAt - last.startedAt
                  /\ last.completedAt - last.startedAt <
                         (m + 1) * MinuteTicks
                  /\ IF m < HourMinutes
                     THEN last.text = ToString(m) \o " min"
                     ELSE \E H \in 1 .. 3, R \in 0 .. (HourMinutes - 1) :
                             /\ H * HourMinutes + R = m
                             /\ last.text = ToString(H) \o "h " \o
                                            ToString(R) \o "m"

(* a workout completed two hours and five minutes after its start *)
C29_Witness ==
    /\ last.pc = "rendered"
    /\ last.startedAt = 0
    /\ last.completedAt = (2 * HourMinutes + 5) * MinuteTicks + 1
    /\ last.text = "2h 5m"

(* slot u holds an update and slot d a delete of the same workout by its
   owner, each issued while the workout was there; both have been served
   and no other statement has written since *)
UpdateAndDelete(u, d) ==
    /\ u # d
    /\ last[u].op = "update" /\ last[d].op = "delete"
    /\ last[u].pc = "done" /\ last[d].pc = "done"
    /\ last[u].id = last[d].id /\ last[u].caller = last[d].caller
    /\ last[u].owned /\ last[d].owned
    /\ last[d].at \in {last[u].at, last[u].at + 1}
    /\ writes = last[d].at

(* C30: however an updateWorkout and a deleteWorkout of the owner on one
   workout interleave, at the end the workout, its links and their sets are
   gone and the delete has succeeded; the update has returned the updated
   workout (it ran first) or failed as not found or unauthorized (it ran
   second), and it has not created the workout again *)
C30_UpdateVersusDelete ==
    \A u, d \in Slots :
        UpdateAndDelete(u, d) =>
            /\ last[d].error = ErrNone
            /\ \A w \in workouts : w.id # last[d].id
            /\ \A l \in workoutExercises : l.workoutId # last[d].id
            /\ \A x \in sets :
                  \E l \in workoutExercises : l.id = x.workoutExerciseId
            /\ \/ /\ last[u].error = ErrNone
                  /\ last[u].at + 1 = last[d].at
                  /\ \E w \in last[u].value :
                        /\ last[u].value = {w}
                        /\ w.id = last[u].id /\ w.userId = last[u].caller
                        /\ \A data \in last[u].data :
                              w = SetFields(w, data)
                        /\ last[d].value = {w}
               \/ /\ last[u].error = ErrNotFound
                  /\ last[u].value = {}
                  /\ last[u].at = last[d].at

(* both requests were in flight together, the delete was served first with
   its cascade, and the update then found no workout *)
C30_Witness ==
    \E u, d \in Slots :
        /\ UpdateAndDelete(u, d)
        /\ last[d].raced
        /\ last[u].error = ErrNotFound
        /\ Cardinality(workoutExercises) = Cardinality(Shared.workoutExercises) - 1
        /\ Cardinality(sets) = Cardinality(Shared.sets) - 1

====
